---- MODULE Spec2Model ----
(***************************************************************************)
(* A model of the Lexer of src/src/lexer.rs: the byte cursor               *)
(* (get_next_pos), the token matcher (get_token), the group matcher        *)
(* (parser_token) and the handler dispatch (eval).                         *)
(*                                                                         *)
(* Text is a sequence of bytes; offsets are 0-based byte offsets as in the *)
(* source, so the byte at offset i is data[i + 1].  A token is the record  *)
(* [ty, lineno, start, end, subs]; the fields `data` (the shared buffer)   *)
(* and `value` (always AstAny::Unknow inside the lexer) are left out.      *)
(***************************************************************************)
EXTENDS Integers, Sequences, FiniteSets, TLC

\* ------------------------------------------------------------------ bounds
\* the longest text, in characters, over Alphabet and over NestAlphabet
MaxLen == 3
MaxNestLen == 4
\* the most pattern rules registered
MaxRules == 2
\* the most tokens get_token is followed for
MaxTokens == 4
\* the most precedence rules declared, and the most lexemes one rule lists
MaxPrecs == 2
MaxPrecLen == 2

\* --------------------------------------------------------- text and bytes
\* The characters texts are built from, each as its UTF-8 bytes:
\* "(", ")", "a", " " and "\n".
Alphabet == { <<40>>, <<41>>, <<97>>, <<32>>, <<10>> }

\* The characters of the longer texts that nest groups: "(", ")" and "a"
NestAlphabet == { <<40>>, <<41>>, <<97>> }

RECURSIVE TextsOfLen(_, _)
TextsOfLen(chars, n) ==
    IF n = 0 THEN { <<>> }
    ELSE { t \o c : t \in TextsOfLen(chars, n - 1), c \in chars }

Texts(chars, max) == UNION { TextsOfLen(chars, n) : n \in 0..max }

\* Lexer::new: ignore is " \t"
ignore == <<32, 9>>

\* Lexer::new: literals is "+-*/%^<>=!?()[]{}.,;:"
literals == <<43, 45, 42, 47, 37, 94, 60, 62, 61, 33, 63, 40, 41, 91, 93,
              123, 125, 46, 44, 59, 58>>

\* Lexer::new: the default delimiter pairs, (type, opener) -> closer
DefaultHashMatchs ==
    ( <<"lit", <<40>>>> :> <<41>> ) @@
    ( <<"lit", <<123>>>> :> <<125>> ) @@
    ( <<"lit", <<91>>>> :> <<93>> )

\* Option<T>
None == [some |-> FALSE]
Some(v) == [some |-> TRUE, val |-> v]

\* str::contains / str::find(..).is_some(): sub occurs in s as a substring
Contains(s, sub) ==
    \E i \in 0..(Len(s) - Len(sub)) : SubSeq(s, i + 1, i + Len(sub)) = sub

\* ------------------------------------------------------------- the rules
\* A pattern rule (LexRegex) is a type and a regular expression over one
\* byte class: "one" is [cls] and "star" is [cls]*.  The rules add_regex is
\* called with: "ch" is [a( ] and "st" is a*.
RulePool ==
    { [ty |-> "ch", kind |-> "one",  cls |-> {97, 40, 32}],
      [ty |-> "st", kind |-> "star", cls |-> {97}] }

\* The pairs add_hash_match is called with, <<type, opener, closer>>:
\* ("st", "a") -> "aa" and ("st", "a") -> "a"
HashPool ==
    { <<"st", <<97>>, <<97, 97>>>>,
      <<"st", <<97>>, <<97>>>> }

TokenTypes == { "lit" } \cup { r.ty : r \in RulePool }

\* The handlers a lexer is driven with, each as the set of token types its
\* on_read answers Err for
HandlerPool == { {}, {"lit"}, TokenTypes }

VARIABLES
    data,        \* Lexer.data: the text, a sequence of bytes
    res,         \* Lexer.res: the pattern rules in registration order
    hash_matchs, \* Lexer.hash_matchs
    tokenstack,  \* Lexer.tokenstack: the build stack
    wait_token,  \* Lexer.wait_token: the pending-opener stack
    pos,         \* Lexer.pos: the scan cursor
    pc,          \* "idle", "loop" (inside parser_token's while) or "panic"
    caller,      \* the public operation running: "parser_token" or "eval"
    ret,         \* what the last finished public operation returned
    emitted,     \* every token get_token has returned, in order
    skipped,     \* offsets of the characters get_token stepped over last
    flat,        \* the tokens get_token returned to the last grouping pass
    waitAtStart, \* wait_token when the last grouping pass began
    waitAtEnd,   \* wait_token when the last grouping pass ran out of input
    called,      \* the tokens the last eval passed to the handler, in order
    results,     \* what the handler returned for each of them
    precs,       \* Lexer.precs: the precedence rules in declaration order
    prec_hash    \* Lexer.prec_hash: (type, lexeme) -> <<left, rank>>

vars == <<data, res, hash_matchs, tokenstack, wait_token, pos, pc, caller,
          ret, emitted, skipped, flat, waitAtStart, waitAtEnd,
          called, results, precs, prec_hash>>

\* ------------------------------------------------------------ the scanner
\* u8 `byte & 0x80 == 0`
HighBitClear(byte) == (byte \div 128) % 2 = 0

\* HighBitRun that takes every byte for a one-byte character
HighBitRunNone(byte) == 0

\* get_next_pos's loop: the length of the run of high 1-bits of byte
RECURSIVE HighBitRun(_)
HighBitRun(byte) ==
    IF HighBitClear(byte) THEN 0
    ELSE 1 + HighBitRun((byte * 2) % 256)

Max(a, b) == IF a >= b THEN a ELSE b

get_next_pos(ori) ==
    IF ori >= Len(data) THEN None
    ELSE LET byte_len == Max(HighBitRun(data[ori + 1]), 1)
             p == ori + byte_len
         IN  IF p > Len(data) THEN None ELSE Some(p)

\* the number of "\n" in data[0..p], plus one
get_now_lineno(p) ==
    Cardinality({ i \in 1..p : data[i] = 10 }) + 1

\* LexToken::get_value
get_value(token) == SubSeq(data, token.start + 1, token.end)

\* clone_base_token that loses the span
clone_base_tokenNoSpan(token) ==
    [ty |-> token.ty, lineno |-> token.lineno, start |-> 0, end |-> 0,
     subs |-> <<>>]

\* LexToken::clone_base_token
clone_base_token(token) ==
    [ty |-> token.ty, lineno |-> token.lineno, start |-> token.start,
     end |-> token.end, subs |-> <<>>]

\* ------------------------------------------------------------ the matcher
\* The greedy run of bytes of cls starting at offset s
RECURSIVE RunLen(_, _)
RunLen(cls, s) ==
    IF s < Len(data) /\ data[s + 1] \in cls THEN 1 + RunLen(cls, s + 1) ELSE 0

\* The length of the rule's match starting exactly at s, or -1 for no match
MatchLenAt(rule, s) ==
    LET n == RunLen(rule.cls, s)
    IN  CASE rule.kind = "one"  -> IF n >= 1 THEN 1 ELSE 0 - 1
          [] rule.kind = "star" -> n

\* Regex::find_at(text, start): the leftmost match at or after start
find_at(rule, start) ==
    LET starts == { s \in start..Len(data) : MatchLenAt(rule, s) >= 0 }
    IN  IF starts = {} THEN None
        ELSE LET s == CHOOSE x \in starts : \A y \in starts : x <= y
             IN  Some([start |-> s, end |-> s + MatchLenAt(rule, s)])

\* FirstRuleAt taking the longest match at ori instead of the first rule
FirstRuleAtLongest(ori) ==
    LET hits == { k \in 1..Len(res) :
                    LET p == find_at(res[k], ori)
                    IN  p.some /\ p.val.start = ori }
    IN  IF hits = {} THEN 0
        ELSE CHOOSE k \in hits :
                \A j \in hits :
                    \/ MatchLenAt(res[k], ori) > MatchLenAt(res[j], ori)
                    \/ MatchLenAt(res[k], ori) = MatchLenAt(res[j], ori) /\ k <= j

\* The `for re in &self.res` loop of get_token: the first rule, in
\* registration order, whose leftmost match begins exactly at ori
FirstRuleAt(ori) ==
    LET hits == { k \in 1..Len(res) :
                    LET p == find_at(res[k], ori)
                    IN  p.some /\ p.val.start = ori }
    IN  IF hits = {} THEN 0
        ELSE CHOOSE k \in hits : \A j \in hits : k <= j

NewToken(ty, lineno, start, end) ==
    [ty |-> ty, lineno |-> lineno, start |-> start, end |-> end, subs |-> <<>>]

\* ScanFrom with the pattern rules tried before the literal set
RECURSIVE ScanFromRulesFirst(_, _, _)
ScanFromRulesFirst(ori, cur, skip) ==
    LET np == get_next_pos(ori)
    IN  IF ~np.some THEN [tok |-> None, pos |-> cur, skip |-> skip]
        ELSE LET val == SubSeq(data, ori + 1, np.val)
                 k == FirstRuleAt(ori)
             IN  IF Contains(ignore, val)
                 THEN ScanFromRulesFirst(np.val, np.val, skip \cup {ori})
                 ELSE IF k # 0
                 THEN LET p == find_at(res[k], ori).val
                      IN  [tok |-> Some(NewToken(res[k].ty, get_now_lineno(ori),
                                                 p.start, p.end)),
                           pos |-> p.end, skip |-> skip]
                 ELSE IF Contains(literals, val)
                 THEN [tok |-> Some(NewToken("lit", get_now_lineno(ori), ori, np.val)),
                       pos |-> np.val, skip |-> skip]
                 ELSE ScanFromRulesFirst(np.val, cur, skip \cup {ori})

\* get_token's loop from the local `ori`, with self.pos = cur so far and the
\* offsets in skip stepped over.  The result is the returned Option<LexToken>,
\* the new self.pos and the offsets stepped over.
RECURSIVE ScanFrom(_, _, _)
ScanFrom(ori, cur, skip) ==
    LET np == get_next_pos(ori)
    IN  IF ~np.some THEN [tok |-> None, pos |-> cur, skip |-> skip]
        ELSE LET val == SubSeq(data, ori + 1, np.val)
                 k == FirstRuleAt(ori)
             IN  IF Contains(ignore, val)
                 THEN ScanFrom(np.val, np.val, skip \cup {ori})
                 ELSE IF Contains(literals, val)
                 THEN [tok |-> Some(NewToken("lit", get_now_lineno(ori), ori, np.val)),
                       pos |-> np.val, skip |-> skip]
                 ELSE IF k # 0
                 THEN LET p == find_at(res[k], ori).val
                      IN  [tok |-> Some(NewToken(res[k].ty, get_now_lineno(ori),
                                                 p.start, p.end)),
                           pos |-> p.end, skip |-> skip]
                 ELSE ScanFrom(np.val, cur, skip \cup {ori})

get_token == ScanFrom(pos, pos, {})

\* The characters stepped over so far, after the call of get_token that gave
\* g: those before the cursor stay stepped over, those from the cursor on
\* are scanned again by every call
Skipped(g) == { o \in skipped : o < pos } \cup g.skip

\* ------------------------------------------------------ the group matcher
Last(s) == s[Len(s)]
Front(s) == SubSeq(s, 1, Len(s) - 1)

\* PushSub that puts t in front of the subs instead of behind them
PushSubFront(ts, t) ==
    [ts EXCEPT ![Len(ts)].subs = <<t>> \o @]

\* tokenstack.last_mut().unwrap().subs.push(t)
PushSub(ts, t) ==
    [ts EXCEPT ![Len(ts)].subs = Append(@, t)]

IsOpener(token) == <<token.ty, get_value(token)>> \in DOMAIN hash_matchs

\* same_type that compares the types only, not the lexeme with the map
same_typeOnly(wt, token) == Last(wt).ty = token.ty

\* `same_type` of parser_token: token closes the top pending opener
same_type(wt, token) ==
    LET last == Last(wt)
    IN  IF last.ty # token.ty THEN FALSE
        ELSE LET key == <<last.ty, get_value(last)>>
             IN  key \in DOMAIN hash_matchs /\ hash_matchs[key] = get_value(token)

\* GroupStep with a finished nested group left on the build stack instead of
\* being moved into its parent
GroupStepNoAttach(ts, wt, token) ==
    IF IsOpener(token)
    THEN [ts |-> Append(ts, token), wt |-> Append(wt, clone_base_token(token)),
          panic |-> FALSE]
    ELSE IF Len(wt) > 0
    THEN IF Len(ts) = 0
         THEN [ts |-> ts, wt |-> wt, panic |-> TRUE]
         ELSE LET ts1 == PushSub(ts, token)
              IN  IF same_type(wt, token)
                  THEN [ts |-> ts1, wt |-> Front(wt), panic |-> FALSE]
                  ELSE [ts |-> ts1, wt |-> wt, panic |-> FALSE]
    ELSE [ts |-> Append(ts, token), wt |-> wt, panic |-> FALSE]

\* GroupStep with the closing test made first, so that a token that is a
\* key of the pair map can close the pending opener
GroupStepCloseFirst(ts, wt, token) ==
    IF Len(wt) > 0 /\ Len(ts) > 0 /\ same_type(wt, token)
    THEN [ts |-> PushSub(ts, token), wt |-> Front(wt), panic |-> FALSE]
    ELSE GroupStepNoAttach(ts, wt, token)

\* The body of parser_token's while loop for one token: the new tokenstack
\* and wait_token, or a panic where an unwrap() meets an empty tokenstack.
GroupStep(ts, wt, token) ==
    IF IsOpener(token)
    THEN [ts |-> Append(ts, token), wt |-> Append(wt, clone_base_token(token)),
          panic |-> FALSE]
    ELSE IF Len(wt) > 0
    THEN IF Len(ts) = 0
         THEN [ts |-> ts, wt |-> wt, panic |-> TRUE]
         ELSE LET ts1 == PushSub(ts, token)
              IN  IF same_type(wt, token)
                  THEN IF Len(wt) - 1 > 0
                       THEN IF Len(ts1) < 2
                            THEN [ts |-> Front(ts1), wt |-> Front(wt), panic |-> TRUE]
                            ELSE [ts |-> PushSub(Front(ts1), Last(ts1)),
                                  wt |-> Front(wt), panic |-> FALSE]
                       ELSE [ts |-> ts1, wt |-> Front(wt), panic |-> FALSE]
                  ELSE [ts |-> ts1, wt |-> wt, panic |-> FALSE]
    ELSE [ts |-> Append(ts, token), wt |-> wt, panic |-> FALSE]

\* Unbalanced that lets a single pending opener pass
UnbalancedOverOne(wt) == Len(wt) > 1

\* `if self.wait_token.len() > 0` once the input is exhausted
Unbalanced(wt) == Len(wt) > 0

\* UnmatchedOpener taking the bottom of the stack instead of the top
UnmatchedOpenerFirst(wt) == wt[1]

\* the opener the error carries: self.wait_token.pop().unwrap()
UnmatchedOpener(wt) == Last(wt)

\* --------------------------------------------------- the precedence table
\* LexPrec::new(ty, left, precs)
LexPrec(ty, left, ps) == [ty |-> ty, left |-> left, precs |-> ps]

\* Lexer::new: the default precedence rules, left {+, -}, left {*, /} and
\* right {-}
DefaultPrecs ==
    << LexPrec("lit", TRUE, << <<43>>, <<45>> >>),
       LexPrec("lit", TRUE, << <<42>>, <<47>> >>),
       LexPrec("lit", FALSE, << <<45>> >>) >>

\* Insert that keeps the value of an existing key
InsertIfAbsent(hash, key, value) ==
    [k \in DOMAIN hash \cup {key} |-> IF k \in DOMAIN hash THEN hash[k] ELSE value]

\* HashMap::insert: the value of an existing key is replaced
Insert(hash, key, value) ==
    [k \in DOMAIN hash \cup {key} |-> IF k = key THEN value ELSE hash[k]]

\* `for p in &value.precs`, from the j-th lexeme of the rule at index idx
RECURSIVE InsertPrecs(_, _, _, _)
InsertPrecs(hash, rules, idx, j) ==
    LET value == rules[idx + 1]
    IN  IF j > Len(value.precs) THEN hash
        ELSE InsertPrecs(Insert(hash, <<value.ty, value.precs[j]>>,
                                <<value.left, idx>>),
                         rules, idx, j + 1)

\* `for idx in 0..self.precs.len()`, from idx on
RECURSIVE AnalyseFrom(_, _, _)
AnalyseFrom(hash, rules, idx) ==
    IF idx >= Len(rules) THEN hash
    ELSE AnalyseFrom(InsertPrecs(hash, rules, idx, 1), rules, idx + 1)

\* do_analyse_prec: the table of the rules, built into an empty HashMap
do_analyse_prec(rules) == AnalyseFrom(<<>>, rules, 0)

\* ------------------------------------------------------------------- init
\* Lexer::new(data, handler)
new(text) ==
    /\ data = text
    /\ res = <<>>
    /\ hash_matchs = DefaultHashMatchs
    /\ tokenstack = <<>>
    /\ wait_token = <<>>
    /\ pos = 0
    /\ pc = "idle"
    /\ caller = "none"
    /\ ret = [kind |-> "none"]
    /\ emitted = <<>>
    /\ skipped = {}
    /\ flat = <<>>
    /\ waitAtStart = <<>>
    /\ waitAtEnd = <<>>
    /\ called = <<>>
    /\ results = <<>>
    /\ precs = DefaultPrecs
    /\ prec_hash = do_analyse_prec(DefaultPrecs)

Init == \E text \in Texts(Alphabet, MaxLen) : new(text)

InitNest == \E text \in Texts(NestAlphabet, MaxNestLen) : new(text)

\* ---------------------------------------------------------------- actions
add_regex(rule) ==
    /\ pc = "idle"
    /\ Len(res) < MaxRules
    /\ \A k \in 1..Len(res) : res[k] # rule
    /\ res' = Append(res, rule)
    /\ caller' = IF caller = "none" THEN "none" ELSE "add_regex"
    /\ ret' = [kind |-> "none"]
    /\ called' = <<>>
    /\ results' = <<>>
    /\ UNCHANGED <<data, precs, prec_hash, hash_matchs, tokenstack, wait_token, pos, pc,
                   emitted, skipped, flat, waitAtStart, waitAtEnd>>

\* The pair map is filled before scanning starts
add_hash_match(ty, start, end) ==
    /\ pc = "idle"
    /\ caller = "none"
    /\ hash_matchs' = [k \in DOMAIN hash_matchs \cup {<<ty, start>>} |->
                          IF k = <<ty, start>> THEN end ELSE hash_matchs[k]]
    /\ hash_matchs' # hash_matchs
    /\ UNCHANGED <<data, precs, prec_hash, res, tokenstack, wait_token, pos, pc, caller,
                   ret, emitted, skipped, flat, waitAtStart, waitAtEnd,
          called, results>>

\* a public call of get_token
GetTokenCall ==
    /\ pc = "idle"
    /\ LET g == get_token
       IN  /\ g.tok.some => Len(emitted) < MaxTokens
           /\ pos' = g.pos
           /\ skipped' = Skipped(g)
           /\ emitted' = IF g.tok.some THEN Append(emitted, g.tok.val) ELSE emitted
           /\ ret' = IF g.tok.some THEN [kind |-> "Some", tok |-> g.tok.val]
                     ELSE [kind |-> "None"]
    /\ caller' = "get_token"
    /\ called' = <<>>
    /\ results' = <<>>
    /\ UNCHANGED <<data, precs, prec_hash, res, hash_matchs, tokenstack, wait_token, pc,
                   flat, waitAtStart, waitAtEnd>>

\* The handler boundary: on_read answers Err for the tokens whose type is in
\* bad.  eval's `for token in temp.drain(..)` calls iter_read_token on every
\* root token and drops what it returns.
HandlerResult(bad, token) == IF token.ty \in bad THEN "Err" ELSE "Ok"

iter_read_token(bad, ts) ==
    [called |-> ts,
     results |-> [i \in 1..Len(ts) |-> HandlerResult(bad, ts[i])]]

\* parser_token is entered: `self.tokenstack = vec![]`
parser_token_begin ==
    /\ pc = "idle"
    /\ tokenstack' = <<>>
    /\ pc' = "loop"
    /\ caller' = "parser_token"
    /\ ret' = [kind |-> "none"]
    /\ flat' = <<>>
    /\ waitAtStart' = wait_token
    /\ called' = <<>>
    /\ results' = <<>>
    /\ UNCHANGED <<data, precs, prec_hash, res, hash_matchs, wait_token, pos, emitted, skipped,
                   waitAtEnd>>

\* eval is entered with an empty tokenstack: it calls parser_token
eval_begin_parse ==
    /\ pc = "idle"
    /\ Len(tokenstack) = 0
    /\ tokenstack' = <<>>
    /\ pc' = "loop"
    /\ caller' = "eval"
    /\ ret' = [kind |-> "none"]
    /\ flat' = <<>>
    /\ waitAtStart' = wait_token
    /\ called' = <<>>
    /\ results' = <<>>
    /\ UNCHANGED <<data, precs, prec_hash, res, hash_matchs, wait_token, pos, emitted, skipped,
                   waitAtEnd>>

\* eval is entered with a non-empty tokenstack: it drains it to the handler
eval_dispatch(bad) ==
    /\ pc = "idle"
    /\ Len(tokenstack) # 0
    /\ LET d == iter_read_token(bad, tokenstack)
       IN  /\ called' = d.called
           /\ results' = d.results
    /\ tokenstack' = <<>>
    /\ caller' = "eval"
    /\ ret' = [kind |-> "Ok"]
    /\ UNCHANGED <<data, precs, prec_hash, res, hash_matchs, wait_token, pos, pc, emitted,
                   skipped, flat, waitAtStart, waitAtEnd>>

\* one turn of `while let Some(mut token) = self.get_token()`
parser_token_loop ==
    /\ pc = "loop"
    /\ Len(emitted) < MaxTokens
    /\ LET g == get_token
       IN  /\ g.tok.some
           /\ pos' = g.pos
           /\ skipped' = Skipped(g)
           /\ emitted' = Append(emitted, g.tok.val)
           /\ flat' = Append(flat, g.tok.val)
           /\ LET s == GroupStep(tokenstack, wait_token, g.tok.val)
              IN  /\ tokenstack' = s.ts
                  /\ wait_token' = s.wt
                  /\ pc' = IF s.panic THEN "panic" ELSE "loop"
    /\ UNCHANGED <<data, precs, prec_hash, res, hash_matchs, caller, ret, waitAtStart,
                   waitAtEnd, called, results>>

\* get_token returned None with pending openers: the pass fails with
\* new_no_match_close_error(self.wait_token.pop().unwrap()); inside eval the
\* `?` returns the error at once
parser_token_err ==
    /\ pc = "loop"
    /\ LET g == get_token
       IN  /\ ~g.tok.some
           /\ pos' = g.pos
           /\ skipped' = Skipped(g)
    /\ Unbalanced(wait_token)
    /\ ret' = [kind |-> "Err", tok |-> UnmatchedOpener(wait_token)]
    /\ wait_token' = Front(wait_token)
    /\ waitAtEnd' = wait_token
    /\ pc' = "idle"
    /\ UNCHANGED <<data, precs, prec_hash, res, hash_matchs, tokenstack, caller, emitted,
                   flat, waitAtStart, called, results>>

\* get_token returned None with no pending opener: parser_token returns Ok
parser_token_ok ==
    /\ pc = "loop"
    /\ caller = "parser_token"
    /\ LET g == get_token
       IN  /\ ~g.tok.some
           /\ pos' = g.pos
           /\ skipped' = Skipped(g)
    /\ ~Unbalanced(wait_token)
    /\ ret' = [kind |-> "Ok"]
    /\ waitAtEnd' = wait_token
    /\ pc' = "idle"
    /\ UNCHANGED <<data, precs, prec_hash, res, hash_matchs, tokenstack, wait_token, caller,
                   emitted, flat, waitAtStart, called, results>>

\* the same inside eval: parser_token()? is Ok and eval goes on to drain
\* tokenstack to the handler
eval_parse_ok(bad) ==
    /\ pc = "loop"
    /\ caller = "eval"
    /\ LET g == get_token
       IN  /\ ~g.tok.some
           /\ pos' = g.pos
           /\ skipped' = Skipped(g)
    /\ ~Unbalanced(wait_token)
    /\ LET d == iter_read_token(bad, tokenstack)
       IN  /\ called' = d.called
           /\ results' = d.results
    /\ tokenstack' = <<>>
    /\ ret' = [kind |-> "Ok"]
    /\ waitAtEnd' = wait_token
    /\ pc' = "idle"
    /\ UNCHANGED <<data, precs, prec_hash, res, hash_matchs, wait_token, caller, emitted,
                   flat, waitAtStart>>

Next ==
    \/ \E rule \in RulePool : add_regex(rule)
    \/ \E h \in HashPool : add_hash_match(h[1], h[2], h[3])
    \/ GetTokenCall
    \/ parser_token_begin
    \/ eval_begin_parse
    \/ \E bad \in HandlerPool : eval_dispatch(bad)
    \/ parser_token_loop
    \/ parser_token_err
    \/ parser_token_ok
    \/ \E bad \in HandlerPool : eval_parse_ok(bad)

Spec == Init /\ [][Next]_vars

\* the same lexer on the texts that nest groups
SpecNest == InitNest /\ [][Next]_vars

\* ---- the lexer on texts with multi-byte characters
\* The characters of the UTF-8 texts, each as its bytes: "é" (2 bytes),
\* "€" (3 bytes), U+1F600 (4 bytes), "a", "(" and " "
Utf8Alphabet ==
    { <<195, 169>>, <<226, 130, 172>>, <<240, 159, 152, 128>>,
      <<97>>, <<40>>, <<32>> }

\* The rules add_regex is called with on these texts: "st" is a* and "wd"
\* is [aé]*, whose matches from a character boundary are runs of whole
\* characters
Utf8RulePool ==
    { [ty |-> "st", kind |-> "star", cls |-> {97}],
      [ty |-> "wd", kind |-> "star", cls |-> {97, 195, 169}] }

InitUtf8 == \E text \in Texts(Utf8Alphabet, MaxLen) : new(text)

NextUtf8 ==
    \/ \E rule \in Utf8RulePool : add_regex(rule)
    \/ GetTokenCall

SpecUtf8 == InitUtf8 /\ [][NextUtf8]_vars

\* ---- the construction of the precedence table
\* The precedence rules a lexer is built from: a type, an associativity and
\* up to MaxPrecLen of the lexemes "+" and "-"
PrecTypes == { "lit", "id" }
PrecLexemes == { <<43>>, <<45>> }
PrecRules ==
    { LexPrec(ty, left, ps) :
        ty \in PrecTypes, left \in BOOLEAN,
        ps \in UNION { [1..n -> PrecLexemes] : n \in 0..MaxPrecLen } }
PrecLists ==
    UNION { [1..n -> PrecRules] : n \in 0..MaxPrecs } \cup { DefaultPrecs }

\* The struct literal of Lexer::new, before do_analyse_prec is called:
\* prec_hash is HashMap::new()
InitPrec ==
    /\ precs \in PrecLists
    /\ prec_hash = <<>>
    /\ data = <<>>
    /\ res = <<>>
    /\ hash_matchs = DefaultHashMatchs
    /\ tokenstack = <<>>
    /\ wait_token = <<>>
    /\ pos = 0
    /\ pc = "new"
    /\ caller = "none"
    /\ ret = [kind |-> "none"]
    /\ emitted = <<>>
    /\ skipped = {}
    /\ flat = <<>>
    /\ waitAtStart = <<>>
    /\ waitAtEnd = <<>>
    /\ called = <<>>
    /\ results = <<>>

\* `lex.do_analyse_prec(); lex` of Lexer::new
new_do_analyse_prec ==
    /\ pc = "new"
    /\ prec_hash' = do_analyse_prec(precs)
    /\ pc' = "idle"
    /\ UNCHANGED <<data, precs, res, hash_matchs, tokenstack, wait_token, pos,
                   caller, ret, emitted, skipped, flat, waitAtStart,
                   waitAtEnd, called, results>>

NextPrec == new_do_analyse_prec

SpecPrec == InitPrec /\ [][NextPrec]_vars

\* ------------------------------------------------------------------ claims
\* a call of parser_token has returned
ParserTokenReturned ==
    pc = "idle" /\ caller = "parser_token" /\ ret.kind \in {"Ok", "Err"}

\* t is the mapped closer of the opener head
Closes(head, t) ==
    /\ head.ty = t.ty
    /\ hash_matchs[<<head.ty, get_value(head)>>] = get_value(t)

\* The nested tree of a flat token stream, by recursive descent from toks[i]:
\* the entries of one level (the root level when head is None, else the
\* children of the opener head up to and with its closer), whether every
\* opener met was closed, and the index after the level.
RECURSIVE NestedLevel(_, _, _, _)
NestedLevel(toks, i, head, acc) ==
    IF i > Len(toks)
    THEN [ok |-> ~head.some, nodes |-> acc, next |-> i]
    ELSE LET t == toks[i]
         IN  IF IsOpener(t)
             THEN LET r == NestedLevel(toks, i + 1, Some(t), <<>>)
                  IN  IF ~r.ok THEN r
                      ELSE NestedLevel(toks, r.next, head,
                                       Append(acc, [t EXCEPT !.subs = r.nodes]))
             ELSE IF head.some /\ Closes(head.val, t)
             THEN [ok |-> TRUE, nodes |-> Append(acc, t), next |-> i + 1]
             ELSE NestedLevel(toks, i + 1, head, Append(acc, t))

NestedTree(toks) == NestedLevel(toks, 1, None, <<>>)

\* C1: when parser_token has returned and every registered opener is closed
\* by its mapped closer in nested order, in the stream of tokens the lexer
\* has emitted and in the part of it this pass read, then it returned Ok and
\* tokenstack is the nested tree of what the pass read: openers are group
\* heads whose subs hold their tokens and finished nested groups in scan
\* order with the closer last, the other tokens are root entries in scan
\* order, and groups nest as deep as the brackets do.
C1_BalancedStreamGivesNestedTree ==
    (ParserTokenReturned /\ NestedTree(emitted).ok /\ NestedTree(flat).ok)
        => (ret.kind = "Ok" /\ tokenstack = NestedTree(flat).nodes)

\* C1 witness: parser_token returned Ok with a group nested in a group, as
\* for "(())": one root "(" whose subs are the inner group and ")"
C1_Witness ==
    /\ ParserTokenReturned /\ NestedTree(emitted).ok /\ ret.kind = "Ok"
    /\ Len(flat) = 4
    /\ Len(tokenstack) = 1
    /\ Len(tokenstack[1].subs) = 2
    /\ Len(tokenstack[1].subs[1].subs) = 1
    /\ tokenstack[1].subs[1].subs[1] = flat[3]
    /\ tokenstack[1].subs[2] = flat[4]

\* C2: when parser_token has returned, it returned the unbalanced-delimiter
\* error exactly if wait_token was non-empty when the input ran out, and Ok
\* otherwise; for a pass that began with no pending opener that is exactly
\* when some opener of the stream is not closed, and on Ok (stray closers
\* included, which stay root entries) tokenstack is the tree of the stream.
C2_ErrIffPendingAtEnd ==
    ParserTokenReturned =>
        /\ (ret.kind = "Err") <=> (Len(waitAtEnd) > 0)
        /\ (ret.kind = "Ok") <=> (Len(waitAtEnd) = 0)
        /\ waitAtStart = <<>> =>
              /\ (ret.kind = "Err") <=> ~NestedTree(flat).ok
              /\ ret.kind = "Ok" => tokenstack = NestedTree(flat).nodes

\* C2 witness: parser_token returned Ok although a closer met no pending
\* opener; the stray closer is a root entry
C2_Witness ==
    /\ ParserTokenReturned /\ ret.kind = "Ok" /\ waitAtStart = <<>>
    /\ \E i \in 1..Len(tokenstack) :
          /\ get_value(tokenstack[i]) = <<41>>
          /\ tokenstack[i].subs = <<>>

\* a grouping pass (of parser_token, or of eval) has just failed
PassFailed == pc = "idle" /\ ret.kind = "Err"

\* C3 as claimed: the error carries the outermost unmatched opener, the one
\* opened first
C3_ErrCarriesOutermost ==
    PassFailed => ret.tok = waitAtEnd[1]

\* C3 as amended: the error carries the innermost unmatched opener, the one
\* opened last: it is a pending opener, none of the pending openers starts
\* after it, and its type, span and line are those get_token gave the opener
C3_ErrCarriesInnermost ==
    PassFailed =>
        /\ \E i \in 1..Len(waitAtEnd) : waitAtEnd[i] = ret.tok
        /\ \A i \in 1..Len(waitAtEnd) : waitAtEnd[i].start <= ret.tok.start
        /\ \E i \in 1..Len(emitted) :
              /\ clone_base_token(emitted[i]) = ret.tok
              /\ IsOpener(emitted[i])

\* C3 witness: a pass failed with two unmatched openers on different lines
C3_Witness ==
    /\ PassFailed
    /\ Len(waitAtEnd) >= 2
    /\ waitAtEnd[1].lineno # ret.tok.lineno
    /\ ret.tok.lineno = 2

\* eval has returned
EvalReturned ==
    pc = "idle" /\ caller = "eval" /\ ret.kind \in {"Ok", "Err"}

\* the last grouping pass ended with the unbalanced-delimiter error
LastPassFailed == Len(waitAtEnd) > 0

\* C4 as claimed: after a failed pass no partial tree is left in tokenstack,
\* and an eval that follows neither passes tokens of it to the handler nor
\* returns Ok
C4_FailedPassLeavesNoTree ==
    /\ PassFailed => tokenstack = <<>>
    /\ (EvalReturned /\ LastPassFailed) => (ret.kind = "Err" /\ called = <<>>)

\* the first of the handler's answers that is an error, or 0
FirstErr ==
    IF \E i \in 1..Len(results) : results[i] = "Err"
    THEN CHOOSE i \in 1..Len(results) :
            results[i] = "Err" /\ \A j \in 1..(i - 1) : results[j] = "Ok"
    ELSE 0

\* C5 as claimed: when the handler answers an error for a root token, no
\* later root token is passed to it and eval returns that error
C5_HandlerErrorStopsEval ==
    (EvalReturned /\ FirstErr # 0) =>
        (Len(called) = FirstErr /\ ret.kind = "HandlerErr")

\* every token below the entries of ts, at any depth
RECURSIVE Below(_)
Below(ts) ==
    UNION { { ts[i].subs[j] : j \in 1..Len(ts[i].subs) } \cup Below(ts[i].subs) :
            i \in 1..Len(ts) }

\* C6 as claimed: the handler is not called while grouping runs nor when the
\* grouping inside eval fails; when eval returns Ok the handler was called
\* once per root token of the result tree of a pass that succeeded, in
\* order, and on no child token
C6_HandlerOncePerRootAfterGrouping ==
    /\ pc = "loop" => called = <<>>
    /\ (EvalReturned /\ ret.kind = "Err") => called = <<>>
    /\ (EvalReturned /\ ret.kind = "Ok") =>
          /\ ~LastPassFailed
          /\ waitAtStart = <<>> => called = NestedTree(flat).nodes
          /\ \A i \in 1..Len(called) : called[i] \notin Below(called)

\* ---- the matcher
\* the token get_token has just returned, under the rules as they are now
JustReturned ==
    IF pc = "idle" /\ caller = "get_token" /\ ret.kind = "Some"
    THEN Some(ret.tok)
    ELSE IF pc = "loop" /\ Len(flat) > 0 THEN Some(Last(flat)) ELSE None

\* the character that starts at offset o is in the set given as a string
CharIn(set, o) ==
    /\ get_next_pos(o).some
    /\ Contains(set, SubSeq(data, o + 1, get_next_pos(o).val))

\* the rules, by index, that have a match starting exactly at offset o
RulesMatchingAt(o) == { k \in 1..Len(res) : MatchLenAt(res[k], o) >= 0 }

\* C7: a token returned from a position whose character is neither ignorable
\* nor a literal has the type and the span of the earliest-registered rule
\* among those that match starting at that position, whatever the lengths of
\* the matches; rules that only match further on do not count.
C7_FirstRegisteredRuleWins ==
    LET t == JustReturned
    IN  (t.some /\ ~CharIn(ignore, t.val.start) /\ ~CharIn(literals, t.val.start)) =>
            /\ RulesMatchingAt(t.val.start) # {}
            /\ LET k == CHOOSE x \in RulesMatchingAt(t.val.start) :
                           \A y \in RulesMatchingAt(t.val.start) : x <= y
               IN  /\ t.val.ty = res[k].ty
                   /\ t.val.end = t.val.start + MatchLenAt(res[k], t.val.start)

\* C7 witness: two rules match at the position with different lengths and
\* the token is the shorter match of the rule registered first, while a
\* longer match of the second rule was there
C7_Witness ==
    LET t == JustReturned
    IN  /\ t.some
        /\ Len(res) = 2
        /\ RulesMatchingAt(t.val.start) = {1, 2}
        /\ MatchLenAt(res[1], t.val.start) < MatchLenAt(res[2], t.val.start)
        /\ t.val.ty = res[1].ty
        /\ t.val.end = t.val.start + MatchLenAt(res[1], t.val.start)

\* C8: a returned token never starts at an ignorable character; a token that
\* starts at a literal character is the one-character "lit" token, also
\* when a rule matches there; a rule's token starts only at a character in
\* neither set.
C8_IgnoreThenLiteralThenRules ==
    LET t == JustReturned
    IN  t.some =>
            /\ ~CharIn(ignore, t.val.start)
            /\ CharIn(literals, t.val.start) =>
                  /\ t.val.ty = "lit"
                  /\ Some(t.val.end) = get_next_pos(t.val.start)
            /\ t.val.ty = "lit" => CharIn(literals, t.val.start)

\* C8 witness: a "lit" token was returned at a position where a registered
\* rule matches too, after an ignorable character a rule matches was skipped
C8_Witness ==
    LET t == JustReturned
    IN  /\ t.some
        /\ t.val.ty = "lit"
        /\ RulesMatchingAt(t.val.start) # {}
        /\ \E o \in skipped :
              /\ o < t.val.start
              /\ CharIn(ignore, o)
              /\ RulesMatchingAt(o) # {}

\* the offsets a token spans
Span(t) == { o \in 0..(Len(data) - 1) : t.start <= o /\ o < t.end }

\* get_token has just found the input exhausted
Exhausted ==
    /\ pc = "idle"
    /\ \/ caller = "get_token" /\ ret.kind = "None"
       \/ caller = "parser_token" /\ ret.kind \in {"Ok", "Err"}

\* C9 as claimed: of two tokens returned one after the other the second
\* starts at or after the end of the first and strictly after its start; no
\* character stepped over lies in a token; and once the input is exhausted
\* every offset of the text is in a token or is a character stepped over
C9_SpansOrderedAndPartition ==
    /\ \A i \in 1..(Len(emitted) - 1) :
          /\ emitted[i].end <= emitted[i + 1].start
          /\ emitted[i].start < emitted[i + 1].start
    /\ \A i \in 1..Len(emitted) : \A o \in skipped : o \notin Span(emitted[i])
    /\ Exhausted =>
          \A o \in 0..(Len(data) - 1) :
              o \in skipped \/ \E i \in 1..Len(emitted) : o \in Span(emitted[i])

\* C10 as claimed: every token get_token returns has start < end
C10_NoZeroWidthToken ==
    \A i \in 1..Len(emitted) : emitted[i].start < emitted[i].end

\* ---- termination
\* get_token, called again and again from cursor p as parser_token's while
\* loop does, returns None within n calls.  Between the calls only self.pos
\* changes, so the calls repeat for ever once one of them leaves p in place.
RECURSIVE ScanEnds(_, _)
ScanEnds(p, n) ==
    LET g == ScanFrom(p, p, {})
    IN  IF ~g.tok.some THEN TRUE
        ELSE IF n = 0 THEN FALSE
        ELSE ScanEnds(g.pos, n - 1)

\* C11 as claimed: a grouping pass ends: from every cursor it is at, the scan
\* reaches end-of-buffer after finitely many get_token calls (at most one per
\* byte of the text, and the call that returns None), and the pass does not
\* end in a panic instead of Ok or the unbalanced-delimiter error
C11_PassTerminates ==
    /\ pc = "loop" => ScanEnds(pos, Len(data) + 1)
    /\ pc # "panic"

\* ---- the cursor at the end of the scan
\* C12 as claimed: whenever get_token has returned None, to its caller or to
\* the while loop of parser_token, pos is at or past the end of the text
C12_NoneOnlyAtEnd ==
    Exhausted => pos >= Len(data)

\* ---- the precedence table
\* the keys a precedence rule can give
PrecKeys ==
    { <<ty, p>> : ty \in PrecTypes, p \in { <<43>>, <<45>>, <<42>>, <<47>> } }

\* the rules, by 1-based position, that list the lexeme of key under its type
Listing(key) ==
    { k \in 1..Len(precs) :
        /\ precs[k].ty = key[1]
        /\ \E j \in 1..Len(precs[k].precs) : precs[k].precs[j] = key[2] }

\* C13: once the lexer is constructed, the precedence table has an entry for
\* exactly the (type, lexeme) pairs some rule lists, and the entry is the
\* associativity of the last declared rule that lists the pair with that
\* rule's 0-based index as rank; for the default rules ("lit", "-") is
\* right-associative with rank 2 and ("lit", "+") left-associative with rank 0.
C13_LastDeclaredWins ==
    pc = "idle" =>
        /\ DOMAIN prec_hash \subseteq PrecKeys
        /\ \A key \in PrecKeys :
              IF Listing(key) = {} THEN key \notin DOMAIN prec_hash
              ELSE LET k == CHOOSE x \in Listing(key) : \A y \in Listing(key) : y <= x
                   IN  /\ key \in DOMAIN prec_hash
                       /\ prec_hash[key] = <<precs[k].left, k - 1>>
        /\ precs = DefaultPrecs =>
              /\ prec_hash[<<"lit", <<45>>>>] = <<FALSE, 2>>
              /\ prec_hash[<<"lit", <<43>>>>] = <<TRUE, 0>>

\* C13 witness: the table was built from rules of which two list the same
\* pair with different associativity, and the entry is that of the later one
C13_Witness ==
    /\ pc = "idle"
    /\ \E key \in PrecKeys :
          \E k1 \in Listing(key) : \E k2 \in Listing(key) :
              /\ k1 < k2
              /\ precs[k1].left # precs[k2].left
              /\ \A y \in Listing(key) : y <= k2
              /\ prec_hash[key] = <<precs[k2].left, k2 - 1>>

\* ---- character boundaries
\* The offsets of data that are character boundaries: the end of the text
\* and the offsets of the bytes that are not UTF-8 continuation bytes
\* (10xxxxxx)
Boundaries ==
    { o \in 0..Len(data) : o = Len(data) \/ data[o + 1] \div 64 # 2 }

\* the first character boundary after offset o
NextBoundary(o) ==
    CHOOSE b \in Boundaries : b > o /\ \A c \in Boundaries : c > o => b <= c

\* C14: on a text of whole UTF-8 characters, get_next_pos of a character
\* boundary before the end is the next character boundary, which is the
\* offset plus the run of high 1-bits of the leading byte or plus 1, and at
\* or past the end it is None; and the start and the end of every token
\* get_token returned are character boundaries, so no token splits a
\* character.
C14_TokensOnCharBoundaries ==
    /\ \A o \in Boundaries \cup { Len(data) + 1 } :
          IF o >= Len(data) THEN get_next_pos(o) = None
          ELSE /\ get_next_pos(o) = Some(NextBoundary(o))
               /\ NextBoundary(o) = o + Max(HighBitRun(data[o + 1]), 1)
    /\ \A i \in 1..Len(emitted) :
          /\ emitted[i].start \in Boundaries
          /\ emitted[i].end \in Boundaries

\* C14 witness: after a character of three or four bytes was stepped over,
\* get_token returned a literal and then a token that is a two-byte character
C14_Witness ==
    /\ \E o \in skipped : get_next_pos(o) \in { Some(o + 3), Some(o + 4) }
    /\ \E i \in 2..Len(emitted) :
          /\ emitted[i - 1].ty = "lit"
          /\ emitted[i].end - emitted[i].start = 2
          /\ data[emitted[i].start + 1] = 195

\* ---- the pending-opener stack between passes
\* C15 as claimed: no grouping pass, of parser_token or of eval, has begun
\* with an opener pending, whatever calls went before, and when parser_token
\* has returned Ok no opener is pending
C15_WaitEmptyBetweenPasses ==
    /\ waitAtStart = <<>>
    /\ (ParserTokenReturned /\ ret.kind = "Ok") => wait_token = <<>>

\* ---- the closing rule
\* parser_token's loop handles, in this step, a token that is not an opener
\* while an opener is pending and a group is being built
HandlesInsideGroup ==
    /\ pc = "loop"
    /\ Len(flat') = Len(flat) + 1
    /\ ~IsOpener(Last(flat'))
    /\ Len(wait_token) > 0
    /\ Len(tokenstack) > 0

\* C16: inside an open group, a token that is not an opener pops the top
\* pending opener exactly if it has the opener's type and its lexeme is what
\* the pair map gives for the opener's (type, lexeme); any other such token,
\* a closer of another pair or type included, becomes the last child of the
\* current group, leaves wait_token as it is, and the pass goes on with no
\* error.
C16_ClosesOnlyOnTypeAndPair ==
    [][HandlesInsideGroup =>
        LET t == Last(flat')
        IN  /\ (wait_token' = Front(wait_token)) <=> Closes(Last(wait_token), t)
            /\ ~Closes(Last(wait_token), t) =>
                  /\ wait_token' = wait_token
                  /\ tokenstack' = PushSub(tokenstack, t)
                  /\ pc' = "loop"]_vars

\* C16 witness: with the opener "a" of type "st" pending, the closer ")" of
\* the other pair and type came and is the last child of the current group,
\* and the opener is still pending
C16_Witness ==
    /\ pc = "loop"
    /\ Len(wait_token) > 0
    /\ Len(tokenstack) > 0
    /\ Len(flat) > 1
    /\ Last(wait_token).ty = "st"
    /\ get_value(Last(flat)) = <<41>>
    /\ Len(Last(tokenstack).subs) > 0
    /\ Last(Last(tokenstack).subs) = Last(flat)
    /\ clone_base_token(Last(tokenstack)) = Last(wait_token)

\* ---- the unwrap() of parser_token
\* C17 as claimed: whenever the loop of parser_token is about to handle a
\* token that is not an opener while an opener is pending, tokenstack is not
\* empty, and no pass ends in the panic of an unwrap() on an empty tokenstack
C17_NoUnwrapOnEmptyStack ==
    /\ pc = "loop" =>
          LET g == get_token
          IN  (g.tok.some /\ ~IsOpener(g.tok.val) /\ Len(wait_token) > 0)
                  => Len(tokenstack) > 0
    /\ pc # "panic"

\* ---- grouping keeps the tokens
\* The pre-order flattening of a forest of tokens: every entry, as get_token
\* returned it, followed by the flattening of its subs
RECURSIVE Flatten(_)
Flatten(ts) ==
    IF ts = <<>> THEN <<>>
    ELSE <<clone_base_token(ts[1])>> \o Flatten(ts[1].subs)
             \o Flatten(SubSeq(ts, 2, Len(ts)))

\* a grouping pass that began with no pending opener is over and its tree is
\* in tokenstack: parser_token has returned, or the pass inside eval failed
PassOver ==
    /\ waitAtStart = <<>>
    /\ \/ ParserTokenReturned
       \/ pc = "idle" /\ caller = "eval" /\ ret.kind = "Err"

\* C18: after a grouping pass that began with no pending opener, whether it
\* returned Ok or the unbalanced-delimiter error, the pre-order flattening of
\* tokenstack is the sequence of tokens get_token returned during the pass:
\* none dropped, none twice, none out of order.
C18_FlattenIsTokenStream ==
    PassOver => Flatten(tokenstack) = flat

\* C18 witness: a pass over four tokens failed with one group finished
\* inside the group left open and a further child behind it
C18_Witness ==
    /\ PassOver
    /\ Len(tokenstack) > 0
    /\ Len(Last(tokenstack).subs) > 1
    /\ Len(Last(tokenstack).subs[1].subs) > 0
    /\ ret.kind = "Err"
    /\ Len(flat) = 4

\* ---- openers are never closers
\* token is an opener whose mapped closer, under its own type, is a key of
\* the pair map too
Unclosable(token) ==
    /\ IsOpener(token)
    /\ <<token.ty, hash_matchs[<<token.ty, get_value(token)>>]>> \in DOMAIN hash_matchs

\* C19: a token whose (type, lexeme) is a key of the pair map is handled as
\* an opener in every turn of the loop, pushed on wait_token and on
\* tokenstack, and pops nothing; and when parser_token has returned from a
\* pass that read an opener whose closer is itself a key under the same type,
\* as after add_hash_match(ty, x, x), it returned the unbalanced-delimiter
\* error.
C19_OpenerNeverCloses ==
    /\ [][(pc = "loop" /\ Len(flat') = Len(flat) + 1 /\ IsOpener(Last(flat'))) =>
            /\ wait_token' = Append(wait_token, clone_base_token(Last(flat')))
            /\ tokenstack' = Append(tokenstack, Last(flat'))
            /\ pc' = "loop"]_vars
    /\ []((ParserTokenReturned /\ \E i \in 1..Len(flat) : Unclosable(flat[i]))
             => ret.kind = "Err")

\* C19 witness: with ("st", "a") mapped to "a", parser_token read "a" twice,
\* took both for openers and failed with both pending
C19_Witness ==
    /\ ParserTokenReturned
    /\ ret.kind = "Err"
    /\ Len(flat) = 2
    /\ Unclosable(flat[1])
    /\ hash_matchs[<<"st", <<97>>>>] = <<97>>
    /\ get_value(flat[2]) = <<97>> /\ flat[2].ty = "st"
    /\ Len(waitAtEnd) = 2
    /\ Len(tokenstack) = 2

\* ---- the two stacks
\* C20: during a grouping pass that began with no pending opener, after each
\* token is handled wait_token is no longer than tokenstack, and the top
\* Len(wait_token) entries of tokenstack are the heads of the open groups in
\* the order of wait_token, each with the type and the span of its
\* wait_token entry.
C20_OpenHeadsOnTopOfStack ==
    (pc = "loop" /\ waitAtStart = <<>>) =>
        /\ Len(wait_token) <= Len(tokenstack)
        /\ \A i \in 1..Len(wait_token) :
              LET head == tokenstack[Len(tokenstack) - Len(wait_token) + i]
              IN  /\ IsOpener(head)
                  /\ head.ty = wait_token[i].ty
                  /\ head.start = wait_token[i].start
                  /\ head.end = wait_token[i].end

\* C20 witness: behind a root token a group is open whose only child is a
\* finished inner group, as after ")(()"
C20_Witness ==
    /\ pc = "loop" /\ waitAtStart = <<>>
    /\ Len(wait_token) = 1
    /\ Len(tokenstack) = 2
    /\ wait_token[1].start = 1
    /\ Len(tokenstack[2].subs) = 1
    /\ Len(tokenstack[2].subs[1].subs) = 1

====
